---- MODULE Spec2Model ----
(***************************************************************************)
(* crypto-id: createId / createSortableId (src/browser.ts) and the older   *)
(* compiled build of createId (src/browser.js).                            *)
(*                                                                         *)
(* Strings are sequences of UTF-16 code units (the alphabet is ASCII), so  *)
(* that chars[...] lookups, chars.indexOf and the string comparison of     *)
(* JavaScript are computed, not assumed.  Date.now() values do not fit a   *)
(* 32-bit integer, so a clock reading is a two-limb number                 *)
(* [hi, lo] = hi * Limb + lo with 0 <= lo < Limb (and [0, -1] for -1).     *)
(***************************************************************************)
EXTENDS Integers, Sequences, FiniteSets, TLC

VARIABLES
    bytes,           \* browser.ts:2   the current batch of random bytes
    position,        \* browser.ts:3   cursor into bytes (0-based)
    lastTimestamp,   \* browser.ts:6
    lastRandomPart,  \* browser.ts:7
    pc,              \* "idle", or the call whose while loop (browser.ts:32) is running
    id,              \* browser.ts:31  local of the running createId
    length,          \* browser.ts:30  parameter of the running createId (a rational)
    arg,             \* the argument the running / last createId was called with
    timestamp,       \* browser.ts:62  local of the running createSortableId
    ret,             \* outcome of the last finished call
    hist,            \* the createSortableId calls that returned an id, in order
    emitted,         \* positions of the current batch whose byte produced a symbol
    reused,          \* the running / last call took a symbol from a byte in emitted
    invoked,         \* the running / last call invoked crypto.getRandomValues
    calls,           \* calls of createId and createSortableId made so far
    pre,             \* the module state as the running / last call found it
    read,            \* the bytes the running / last call read, in order
    last,            \* the last step taken and the cursor and batch size it found
    sortable,        \* status and clock reading of the last finished createSortableId
    thread,          \* per caller: the position in createSortableId and its locals
    atomic           \* whether createSortableId calls are serialized

vars == <<bytes, position, lastTimestamp, lastRandomPart, pc, id, length, arg,
          timestamp, ret, hist, emitted, reused, invoked, calls, pre, read, last,
          sortable, thread, atomic>>

-----------------------------------------------------------------------------
(* Bounds of the model *)

\* calls of createId and createSortableId per behaviour
MaxCalls == 3

\* bytes of one call that are recorded in read; a call that reads more is marked
\* incomplete there
\* createSortableId calls made by the two callers together
MaxThreadCalls == 3

\* Widths 1..MaxWidth of the strings given to incrementBase62
MaxWidth == 3

\* The numbers 0..MaxEncode given to encodeBase62
MaxEncode == 125

MaxRead == 80

-----------------------------------------------------------------------------
(* Program constants *)

BatchSize == 40
DefaultLength == 16
DefaultLengthJs == 24
PadWidth == 8
RandomLength == 8
Base == 62

\* const maxValue = 62 * 4 - 1
maxValue == 62 * 4 - 1

\* '0123456789ABCDEFGHIJKLMNOPQRSTUVWXYZabcdefghijklmnopqrstuvwxyz'.split('')
\* as code units, 1-based: chars[i + 1] is the source's chars[i].
chars ==
    [i \in 1..62 |-> IF i <= 10 THEN 47 + i ELSE IF i <= 36 THEN 54 + i ELSE 60 + i]

\* chars[i] of the source (0-based index)
CharAt(i) == chars[i + 1]

\* chars.indexOf(c): the first index holding c, -1 when there is none
IndexOf(c) ==
    IF \E i \in DOMAIN chars : chars[i] = c
    THEN (CHOOSE i \in DOMAIN chars :
              chars[i] = c /\ \A j \in DOMAIN chars : chars[j] = c => i <= j) - 1
    ELSE -1

\* The code unit of '0', the pad character of padStart(8, '0')
Zero == 48

-----------------------------------------------------------------------------
(* JavaScript numbers beyond 32 bits: hi * Limb + lo *)

Limb == 62 * 62 * 62 * 62

Num(h, l) == [hi |-> h, lo |-> l]

NumIsZero(n) == n.hi = 0 /\ n.lo = 0

\* num > 0
NumPositive(n) == n.hi > 0 \/ n.lo > 0

\* num % 62 (Limb is a multiple of 62)
NumMod(n) == ((n.hi % Base) * (Limb % Base) + n.lo) % Base

\* Math.floor(num / 62)
NumDiv(n) ==
    [hi |-> n.hi \div Base,
     lo |-> ((n.hi % Base) * Limb + n.lo) \div Base]

NumLess(a, b) == a.hi < b.hi \/ (a.hi = b.hi /\ a.lo < b.lo)

-----------------------------------------------------------------------------
(* Strings *)

\* a < b on JavaScript strings: by code unit, a proper prefix sorts first
RECURSIVE StrLess(_, _)
StrLess(a, b) ==
    IF b = <<>> THEN FALSE
    ELSE IF a = <<>> THEN TRUE
    ELSE IF Head(a) # Head(b) THEN Head(a) < Head(b)
    ELSE StrLess(Tail(a), Tail(b))

StrLeq(a, b) == a = b \/ StrLess(a, b)

\* Fault: the padding goes to the right (padEnd)
padStart_right(str, width, c) ==
    IF Len(str) >= width THEN str
    ELSE str \o [i \in 1..(width - Len(str)) |-> c]

\* str.padStart(width, c)
padStart(str, width, c) ==
    IF Len(str) >= width THEN str
    ELSE [i \in 1..(width - Len(str)) |-> c] \o str

\* str.substring(from, to), 0-based, to exclusive
Substring(str, from, to) ==
    IF to <= from THEN <<>> ELSE SubSeq(str, from + 1, IF to > Len(str) THEN Len(str) ELSE to)

-----------------------------------------------------------------------------
(* Pure functions of src/browser.ts *)

\* Fault: the symbols are appended, least significant first
RECURSIVE encodeLoop_appending(_, _)
encodeLoop_appending(num, result) ==
    IF NumPositive(num)
    THEN encodeLoop_appending(NumDiv(num), result \o <<CharAt(NumMod(num))>>)
    ELSE result

\* encodeBase62's while loop: result = chars[num % 62] + result; num = floor(num / 62)
RECURSIVE encodeLoop(_, _)
encodeLoop(num, result) ==
    IF NumPositive(num)
    THEN encodeLoop(NumDiv(num), <<CharAt(NumMod(num))>> \o result)
    ELSE result

\* Fault: the line if (num === 0) return '0' is missing
encodeBase62_noZeroCase(num) == encodeLoop(num, <<>>)

encodeBase62(num) == IF NumIsZero(num) THEN <<Zero>> ELSE encodeLoop(num, <<>>)

\* Fault: the padStart line is missing
TimestampStr_unpadded(t) == encodeBase62(t)

\* encodeBase62(timestamp).padStart(8, '0')
TimestampStr(t) == padStart(encodeBase62(t), PadWidth, Zero)

\* Fault: the carry branch forgets the carry (carry = 0)
RECURSIVE incrementLoop_dropsCarry(_, _, _)
incrementLoop_dropsCarry(arr, i, carry) ==
    IF i >= 1 /\ carry > 0
    THEN LET currentIndex == IndexOf(arr[i])
             newIndex == currentIndex + carry
         IN IF newIndex < Len(chars)
            THEN incrementLoop_dropsCarry([arr EXCEPT ![i] = CharAt(newIndex)], i - 1, 0)
            ELSE incrementLoop_dropsCarry([arr EXCEPT ![i] = CharAt(0)], i - 1, 0)
    ELSE [arr |-> arr, carry |-> carry]

\* incrementBase62's for loop; i is the 1-based position of the source's arr[i]
RECURSIVE incrementLoop(_, _, _)
incrementLoop(arr, i, carry) ==
    IF i >= 1 /\ carry > 0
    THEN LET currentIndex == IndexOf(arr[i])
             newIndex == currentIndex + carry
         IN IF newIndex < Len(chars)
            THEN incrementLoop([arr EXCEPT ![i] = CharAt(newIndex)], i - 1, 0)
            ELSE incrementLoop([arr EXCEPT ![i] = CharAt(0)], i - 1, 1)
    ELSE [arr |-> arr, carry |-> carry]

\* Fault: the overflow test is missing, the wrapped string is returned
incrementBase62_wraps(str) ==
    [null |-> FALSE, str |-> incrementLoop(str, Len(str), 1).arr]

\* Fault: carry starts at 0, the string comes back as it was
incrementBase62_stale(str) ==
    [null |-> FALSE, str |-> incrementLoop(str, Len(str), 0).arr]

\* Fault: only the last symbol is advanced, a last 'z' is reported as overflow
incrementBase62_lastOnly(str) ==
    IF str = <<>> \/ IndexOf(str[Len(str)]) + 1 >= Len(chars)
    THEN [null |-> TRUE, str |-> <<>>]
    ELSE [null |-> FALSE,
          str |-> [str EXCEPT ![Len(str)] = CharAt(IndexOf(str[Len(str)]) + 1)]]

\* incrementBase62(str): null on overflow, else the joined string
incrementBase62(str) ==
    LET r == incrementLoop(str, Len(str), 1)
    IN IF r.carry > 0 THEN [null |-> TRUE, str |-> <<>>]
       ELSE [null |-> FALSE, str |-> r.arr]

\* !randomPart : null and the empty string are falsy
Falsy(r) == r.null \/ r.str = <<>>

\* Fault: <= for <
LessThanLength_orEqual(n, len) == n * len.den <= len.num

\* n < length, for a length given as the rational num / den (den > 0)
LessThanLength(n, len) == n * len.den < len.num

\* Fault: b < maxValue, the byte 247 is rejected too
RECURSIVE Scan_strict(_, _, _, _, _)
Scan_strict(bs, pos, acc, len, hits) ==
    IF ~(pos < Len(bs)) THEN [id |-> acc, position |-> pos, hits |-> hits]
    ELSE LET b == bs[pos + 1]
             acc2 == IF b < maxValue THEN Append(acc, CharAt(b % Base)) ELSE acc
             hits2 == IF b < maxValue THEN hits \cup {pos} ELSE hits
         IN IF ~LessThanLength(Len(acc2), len)
            THEN [id |-> acc2, position |-> pos, hits |-> hits2]
            ELSE Scan_strict(bs, pos + 1, acc2, len, hits2)

\* The for loop of createId (browser.ts:37-46) from cursor pos over the batch bs with
\* the id built so far in acc.  A break leaves the cursor ON the byte just read;
\* hits are the positions whose byte produced a symbol.
RECURSIVE Scan(_, _, _, _, _)
Scan(bs, pos, acc, len, hits) ==
    IF ~(pos < Len(bs)) THEN [id |-> acc, position |-> pos, hits |-> hits]
    ELSE LET b == bs[pos + 1]
             acc2 == IF b <= maxValue THEN Append(acc, CharAt(b % Base)) ELSE acc
             hits2 == IF b <= maxValue THEN hits \cup {pos} ELSE hits
         IN IF ~LessThanLength(Len(acc2), len)
            THEN [id |-> acc2, position |-> pos, hits |-> hits2]
            ELSE Scan(bs, pos + 1, acc2, len, hits2)

-----------------------------------------------------------------------------
(* Inputs *)

\* What crypto.getRandomValues(new Uint8Array(40)) may deliver: the batch whose
\* i-th byte is (a + s * i) mod 256.  <<0, 0>> is all '0', <<247, 0>> is all 'z',
\* <<248, 0>> is all rejected bytes, <<240, 1>> runs 240..255, 0..23 (accepted,
\* rejected, accepted).
BatchSeeds == {<<0, 0>>, <<247, 0>>, <<248, 0>>, <<240, 1>>}

Batch(seed) == [i \in 1..BatchSize |-> (seed[1] + seed[2] * (i - 1)) % 256]

Batches == {Batch(seed) : seed \in BatchSeeds}

\* createId's argument: undefined, or a number num / den
Undefined == [defined |-> FALSE, num |-> 0, den |-> 1]

Number(n, d) == [defined |-> TRUE, num |-> n, den |-> d]

Args == {Undefined, Number(-1, 1), Number(0, 1), Number(1, 1), Number(3, 2),
         Number(9, 1)}

\* Date.now() readings: -1 (a clock set before the epoch), 0, 61 and 62 (the last
\* of one symbol, the first of two), a present-day reading (1793790000000),
\* 62^8 - 1 (the last reading of 8 symbols) and 62^8 (the first of 9 symbols)
ClockReadings ==
    {Num(0, -1), Num(0, 0), Num(0, 61), Num(0, 62), Num(121396, 1914944),
     Num(Limb - 1, Limb - 1), Num(Limb, 0)}

-----------------------------------------------------------------------------
(* State machine *)

NoResult == [op |-> "none", status |-> "none", value |-> <<>>]

\* The module state a call finds on entry
Snapshot ==
    [bytes |-> bytes, position |-> position, lastTimestamp |-> lastTimestamp,
     lastRandomPart |-> lastRandomPart, returned |-> Len(hist),
     sortable |-> sortable]

NothingRead == [bytes |-> <<>>, complete |-> TRUE]

\* read, extended by the bytes bs[from..to] (0-based, inclusive) of one for loop
Reading(bs, from, to) ==
    IF read.complete /\ Len(read.bytes) + (to - from + 1) <= MaxRead
    THEN [bytes |-> read.bytes \o SubSeq(bs, from + 1, to + 1), complete |-> TRUE]
    ELSE [bytes |-> read.bytes, complete |-> FALSE]

\* The step taken, with the cursor and the batch size it found and the cursor its
\* for loop started from (-1: no for loop)
Step(name, from) ==
    [step |-> name, cursor |-> position, size |-> Len(bytes), from |-> from]

NoSortable == [status |-> "none", ts |-> Num(0, 0)]

\* The callers of createSortableId on one shared module state
Threads == {1, 2}

\* A caller outside createSortableId
NoCall == [pc |-> "idle", timestamp |-> Num(0, 0), randomPart |-> <<>>, id |-> <<>>,
           mode |-> "none"]

Init ==
    /\ bytes = <<>>
    /\ position = 0
    /\ lastTimestamp = Num(0, 0)
    /\ lastRandomPart = <<>>
    /\ pc = "idle"
    /\ id = <<>>
    /\ length = [num |-> 0, den |-> 1]
    /\ arg = Undefined
    /\ timestamp = Num(0, 0)
    /\ ret = NoResult
    /\ hist = <<>>
    /\ emitted = {}
    /\ reused = FALSE
    /\ invoked = FALSE
    /\ calls = 0
    /\ pre = [bytes |-> <<>>, position |-> 0, lastTimestamp |-> Num(0, 0),
              lastRandomPart |-> <<>>, returned |-> 0, sortable |-> NoSortable]
    /\ read = NothingRead
    /\ last = [step |-> "none", cursor |-> 0, size |-> 0, from |-> -1]
    /\ sortable = NoSortable
    /\ thread = [t \in Threads |-> NoCall]
    /\ atomic = TRUE

Running == pc \in {"createId", "createSortableId"}

\* length = 16 (browser.ts:30), length = 24 (browser.js:7): the default applies to
\* an undefined argument
ParamLength(a, default) ==
    IF a.defined THEN [num |-> a.num, den |-> a.den] ELSE [num |-> default, den |-> 1]

\* Entry of createId: let id = ''; and the first test of while (id.length < length).
\* When it fails the call returns '' at once.
EnterCreateId(a, default) ==
    /\ pc = "idle"
    /\ calls < MaxCalls
    /\ calls' = calls + 1
    /\ pre' = Snapshot
    /\ arg' = a
    /\ length' = ParamLength(a, default)
    /\ id' = <<>>
    /\ reused' = FALSE
    /\ invoked' = FALSE
    /\ IF LessThanLength(0, ParamLength(a, default))
       THEN /\ pc' = "createId"
            /\ UNCHANGED ret
       ELSE /\ pc' = "idle"
            /\ ret' = [op |-> "createId", status |-> "returned", value |-> <<>>]
    /\ read' = NothingRead
    /\ last' = Step("createId", -1)
    /\ UNCHANGED <<bytes, position, lastTimestamp, lastRandomPart, timestamp, hist,
                   emitted, sortable, thread, atomic>>

\* createId(length = 16) of src/browser.ts
CreateId(a) == EnterCreateId(a, DefaultLength)

\* createId(length = 24) of src/browser.js
CreateIdJs(a) == EnterCreateId(a, DefaultLengthJs)

\* Fault: createSortableId returns without lastTimestamp = timestamp
Return_keepsTimestamp(v) ==
    /\ pc' = "idle"
    /\ IF pc = "createSortableId"
       THEN /\ lastRandomPart' = v
            /\ ret' = [op |-> "createSortableId", status |-> "returned",
                       value |-> TimestampStr(timestamp) \o v]
            /\ hist' = Append(hist, [ts |-> timestamp, mode |-> "fresh",
                                     id |-> TimestampStr(timestamp) \o v])
            /\ sortable' = [status |-> "returned", ts |-> timestamp]
            /\ UNCHANGED lastTimestamp
       ELSE /\ ret' = [op |-> "createId", status |-> "returned", value |-> v]
            /\ UNCHANGED <<lastTimestamp, lastRandomPart, hist, sortable>>

\* Fault: createId records the string it returns as lastRandomPart
Return_recordsRandom(v) ==
    /\ pc' = "idle"
    /\ IF pc = "createSortableId"
       THEN /\ lastTimestamp' = timestamp
            /\ lastRandomPart' = v
            /\ ret' = [op |-> "createSortableId", status |-> "returned",
                       value |-> TimestampStr(timestamp) \o v]
            /\ hist' = Append(hist, [ts |-> timestamp, mode |-> "fresh",
                                     id |-> TimestampStr(timestamp) \o v])
            /\ sortable' = [status |-> "returned", ts |-> timestamp]
       ELSE /\ ret' = [op |-> "createId", status |-> "returned", value |-> v]
            /\ lastRandomPart' = v
            /\ UNCHANGED <<lastTimestamp, hist, sortable>>

\* return of the running call with the random string v.  For createSortableId this
\* is browser.ts:80-85: randomPart = createId(8); lastTimestamp = timestamp;
\* lastRandomPart = randomPart; return timestampStr + randomPart.
Return(v) ==
    /\ pc' = "idle"
    /\ IF pc = "createSortableId"
       THEN /\ lastTimestamp' = timestamp
            /\ lastRandomPart' = v
            /\ ret' = [op |-> "createSortableId", status |-> "returned",
                       value |-> TimestampStr(timestamp) \o v]
            /\ hist' = Append(hist, [ts |-> timestamp, mode |-> "fresh",
                                     id |-> TimestampStr(timestamp) \o v])
            /\ sortable' = [status |-> "returned", ts |-> timestamp]
       ELSE /\ ret' = [op |-> "createId", status |-> "returned", value |-> v]
            /\ UNCHANGED <<lastTimestamp, lastRandomPart, hist, sortable>>

\* One pass of the body of while (id.length < length) after the refill test: the
\* for loop over the batch bs from cursor pos, then the while test again.
Pass(bs, pos, em) ==
    LET r == Scan(bs, pos, id, length, {})
    IN /\ bytes' = bs
       /\ position' = r.position
       /\ id' = r.id
       /\ emitted' = em \cup r.hits
       /\ reused' = (reused \/ (r.hits \cap em) # {})
       /\ read' = Reading(bs, pos, IF r.position < Len(bs) THEN r.position
                                   ELSE Len(bs) - 1)
       /\ IF LessThanLength(Len(r.id), length)
          THEN UNCHANGED <<pc, ret, hist, lastTimestamp, lastRandomPart, sortable>>
          ELSE Return(r.id)
       /\ UNCHANGED <<length, arg, timestamp, calls, pre, thread, atomic>>

\* Fault: the line position = 0 is missing
Refill_keepsCursor(batch) ==
    /\ Running
    /\ position = Len(bytes)
    /\ invoked' = TRUE
    /\ last' = Step("Refill", position)
    /\ Pass(batch, position, {})

\* Fault: a new batch is drawn at any cursor, without the test position === bytes.length
Refill_anytime(batch) ==
    /\ Running
    /\ invoked' = TRUE
    /\ last' = Step("Refill", 0)
    /\ Pass(batch, 0, {})

\* position === bytes.length: bytes = crypto.getRandomValues(new Uint8Array(40));
\* position = 0; then the for loop
Refill(batch) ==
    /\ Running
    /\ position = Len(bytes)
    /\ invoked' = TRUE
    /\ last' = Step("Refill", 0)
    /\ Pass(batch, 0, {})

\* Fault: createSortableId records the clock reading before it draws the segment
RefillFails_recordsTimestamp ==
    /\ Running
    /\ position = Len(bytes)
    /\ invoked' = TRUE
    /\ pc' = "idle"
    /\ ret' = [op |-> pc, status |-> "sourceError", value |-> <<>>]
    /\ last' = Step("RefillFails", -1)
    /\ sortable' = IF pc = "createSortableId"
                   THEN [status |-> "sourceError", ts |-> timestamp]
                   ELSE sortable
    /\ lastTimestamp' = IF pc = "createSortableId" THEN timestamp ELSE lastTimestamp
    /\ UNCHANGED <<bytes, position, lastRandomPart, id, length, arg,
                   timestamp, hist, emitted, reused, calls, pre, read, thread, atomic>>

\* crypto.getRandomValues throws: the exception leaves createId and, uncaught,
\* createSortableId
RefillFails ==
    /\ Running
    /\ position = Len(bytes)
    /\ invoked' = TRUE
    /\ pc' = "idle"
    /\ ret' = [op |-> pc, status |-> "sourceError", value |-> <<>>]
    /\ last' = Step("RefillFails", -1)
    /\ sortable' = IF pc = "createSortableId"
                   THEN [status |-> "sourceError", ts |-> timestamp]
                   ELSE sortable
    /\ UNCHANGED <<bytes, position, lastTimestamp, lastRandomPart, id, length, arg,
                   timestamp, hist, emitted, reused, calls, pre, read, thread, atomic>>

\* position !== bytes.length: the for loop goes on in the current batch
Continue ==
    /\ Running
    /\ position # Len(bytes)
    /\ UNCHANGED invoked
    /\ last' = Step("Continue", position)
    /\ Pass(bytes, position, emitted)

\* Fault: the overflow branch clears lastRandomPart before it throws
CreateSortableId_overflowResets(t) ==
    /\ pc = "idle"
    /\ calls < MaxCalls
    /\ calls' = calls + 1
    /\ pre' = Snapshot
    /\ timestamp' = t
    /\ reused' = FALSE
    /\ invoked' = FALSE
    /\ read' = NothingRead
    /\ last' = Step("createSortableId", -1)
    /\ IF t = lastTimestamp
       THEN LET randomPart == incrementBase62(lastRandomPart)
            IN /\ IF Falsy(randomPart)
                  THEN /\ ret' = [op |-> "createSortableId", status |-> "overflow",
                                  value |-> <<>>]
                       /\ sortable' = [status |-> "overflow", ts |-> t]
                       /\ lastRandomPart' = <<>>
                       /\ UNCHANGED hist
                  ELSE /\ lastRandomPart' = randomPart.str
                       /\ ret' = [op |-> "createSortableId", status |-> "returned",
                                  value |-> TimestampStr(t) \o randomPart.str]
                       /\ hist' = Append(hist, [ts |-> t, mode |-> "increment",
                                                id |-> TimestampStr(t) \o randomPart.str])
                       /\ sortable' = [status |-> "returned", ts |-> t]
               /\ UNCHANGED <<pc, id, length, arg, lastTimestamp>>
       ELSE /\ pc' = "createSortableId"
            /\ arg' = Number(RandomLength, 1)
            /\ length' = ParamLength(Number(RandomLength, 1), DefaultLength)
            /\ id' = <<>>
            /\ UNCHANGED <<ret, hist, lastTimestamp, lastRandomPart, sortable>>
    /\ UNCHANGED <<bytes, position, emitted, thread, atomic>>

\* createSortableId() with Date.now() = t (browser.ts:61-86)
CreateSortableId(t) ==
    /\ pc = "idle"
    /\ calls < MaxCalls
    /\ calls' = calls + 1
    /\ pre' = Snapshot
    /\ timestamp' = t
    /\ reused' = FALSE
    /\ invoked' = FALSE
    /\ read' = NothingRead
    /\ last' = Step("createSortableId", -1)
    /\ IF t = lastTimestamp
       THEN LET randomPart == incrementBase62(lastRandomPart)
            IN /\ IF Falsy(randomPart)
                  THEN /\ ret' = [op |-> "createSortableId", status |-> "overflow",
                                  value |-> <<>>]
                       /\ sortable' = [status |-> "overflow", ts |-> t]
                       /\ UNCHANGED <<lastRandomPart, hist>>
                  ELSE /\ lastRandomPart' = randomPart.str
                       /\ ret' = [op |-> "createSortableId", status |-> "returned",
                                  value |-> TimestampStr(t) \o randomPart.str]
                       /\ hist' = Append(hist, [ts |-> t, mode |-> "increment",
                                                id |-> TimestampStr(t) \o randomPart.str])
                       /\ sortable' = [status |-> "returned", ts |-> t]
               /\ UNCHANGED <<pc, id, length, arg, lastTimestamp>>
       ELSE /\ pc' = "createSortableId"
            /\ arg' = Number(RandomLength, 1)
            /\ length' = ParamLength(Number(RandomLength, 1), DefaultLength)
            /\ id' = <<>>
            /\ UNCHANGED <<ret, hist, lastTimestamp, lastRandomPart, sortable>>
    /\ UNCHANGED <<bytes, position, emitted, thread, atomic>>

Next ==
    \/ \E a \in Args : CreateId(a)
    \/ \E t \in ClockReadings : CreateSortableId(t)
    \/ \E batch \in Batches : Refill(batch)
    \/ RefillFails
    \/ Continue

Spec == Init /\ [][Next]_vars

\* The batches that hold at least one byte the for loop accepts
GoodBatches == {batch \in Batches : \E i \in DOMAIN batch : batch[i] <= maxValue}

\* Calls with a length of one symbol, of two (3/2 rounds up) and of nine, and
\* createSortableId at two readings, 0 being the initial lastTimestamp
LiveArgs == {Number(1, 1), Number(3, 2), Number(9, 1)}

LiveReadings == {Num(0, 0), Num(0, 61)}

NextLive ==
    \/ \E a \in LiveArgs : CreateId(a)
    \/ \E t \in LiveReadings : CreateSortableId(t)
    \/ \E batch \in Batches : Refill(batch)
    \/ RefillFails
    \/ Continue

\* The calls run to completion: a started call takes its next step, and while a
\* call waits at position === bytes.length the source comes to supply a batch
\* that holds an accepted byte
SpecLive ==
    /\ Init
    /\ [][NextLive]_vars
    /\ WF_vars(Continue)
    /\ WF_vars(\E batch \in GoodBatches : Refill(batch))

\* The build src/browser.js: createId alone, on its own bytes and position
NextJs ==
    \/ \E a \in Args : CreateIdJs(a)
    \/ \E batch \in Batches : Refill(batch)
    \/ RefillFails
    \/ Continue

SpecJs == Init /\ [][NextJs]_vars

-----------------------------------------------------------------------------
(* incrementBase62 and encodeBase62 as functions of their argument *)

\* Symbols of the argument strings: '0' '1' '9' 'A' 'Z' 'a' 'y' 'z'
IncSymbols == {48, 49, 57, 65, 90, 97, 121, 122}

\* A string as wide as a random segment: first symbol c1, last c8, c between
Wide(c1, c, c8) ==
    [i \in 1..RandomLength |-> IF i = 1 THEN c1 ELSE IF i = RandomLength THEN c8 ELSE c]

\* Arguments of incrementBase62: '', every string of width 1..MaxWidth over
\* IncSymbols, and the 8-symbol strings made of '0' and 'z' runs
IncrementInputs ==
    {<<>>} \cup UNION {[1..w -> IncSymbols] : w \in 1..MaxWidth}
           \cup {Wide(c1, c, c8) : c1 \in {48, 122}, c \in {48, 122}, c8 \in {48, 122}}

\* Arguments of encodeBase62: 0..MaxEncode, the values around 62^2, 62^3, 62^4,
\* a present-day reading, 62^8 - 1 and 62^8
EncodeInputs ==
    {Num(0, n) : n \in 0..MaxEncode}
        \cup {Num(0, 3843), Num(0, 3844), Num(0, 238327), Num(0, 238328),
              Num(0, Limb - 1), Num(1, 0), Num(121396, 1914944),
              Num(Limb - 1, Limb - 1), Num(Limb, 0)}

\* The module state with str and num held as the arguments to come
InitPure(str, num) ==
    /\ bytes = <<>>
    /\ position = 0
    /\ lastTimestamp = Num(0, 0)
    /\ lastRandomPart = str
    /\ pc = "idle"
    /\ id = <<>>
    /\ length = [num |-> 0, den |-> 1]
    /\ arg = Undefined
    /\ timestamp = num
    /\ ret = NoResult
    /\ hist = <<>>
    /\ emitted = {}
    /\ reused = FALSE
    /\ invoked = FALSE
    /\ calls = 0
    /\ read = NothingRead
    /\ last = [step |-> "none", cursor |-> 0, size |-> 0, from |-> -1]
    /\ sortable = NoSortable
    /\ thread = [t \in Threads |-> NoCall]
    /\ atomic = TRUE
    /\ pre = Snapshot

InitIncrement == \E str \in IncrementInputs : InitPure(str, Num(0, 0))

InitEncode == \E num \in EncodeInputs : InitPure(<<>>, num)

\* const randomPart = incrementBase62(lastRandomPart) (browser.ts:73), alone
ApplyIncrement ==
    /\ ret = NoResult
    /\ LET randomPart == incrementBase62(lastRandomPart)
       IN ret' = [op |-> "incrementBase62",
                  status |-> IF randomPart.null THEN "null" ELSE "returned",
                  value |-> randomPart.str]
    /\ UNCHANGED <<bytes, position, lastTimestamp, lastRandomPart, pc, id, length,
                   arg, timestamp, hist, emitted, reused, invoked, calls, pre, read,
                   last, sortable, thread, atomic>>

\* encodeBase62(timestamp) (browser.ts:67), alone
ApplyEncode ==
    /\ ret = NoResult
    /\ ret' = [op |-> "encodeBase62", status |-> "returned",
               value |-> encodeBase62(timestamp)]
    /\ UNCHANGED <<bytes, position, lastTimestamp, lastRandomPart, pc, id, length,
                   arg, timestamp, hist, emitted, reused, invoked, calls, pre, read,
                   last, sortable, thread, atomic>>

SpecIncrement == InitIncrement /\ [][ApplyIncrement]_vars

SpecEncode == InitEncode /\ [][ApplyEncode]_vars

-----------------------------------------------------------------------------
(* createSortableId called by two callers on one module state, statement by
   statement; with atomic, a call starts only when no other call is under way *)

\* Date.now() readings of the callers: -1, 0 (the initial lastTimestamp) and 61
ThreadReadings == {Num(0, -1), Num(0, 0), Num(0, 61)}

InitThreads ==
    /\ bytes = <<>>
    /\ position = 0
    /\ lastTimestamp = Num(0, 0)
    /\ lastRandomPart = <<>>
    /\ pc = "idle"
    /\ id = <<>>
    /\ length = [num |-> 0, den |-> 1]
    /\ arg = Undefined
    /\ timestamp = Num(0, 0)
    /\ ret = NoResult
    /\ hist = <<>>
    /\ emitted = {}
    /\ reused = FALSE
    /\ invoked = FALSE
    /\ calls = 0
    /\ read = NothingRead
    /\ last = [step |-> "none", cursor |-> 0, size |-> 0, from |-> -1]
    /\ sortable = NoSortable
    /\ thread = [t \in Threads |-> NoCall]
    /\ atomic \in BOOLEAN
    /\ pre = Snapshot

\* What the callers' steps leave alone: the state of the single-caller model
ThreadFrame ==
    UNCHANGED <<pc, id, length, arg, timestamp, ret, emitted, reused, invoked, pre,
                read, last, sortable, atomic>>

\* Fault: a call starts whatever the other caller is doing
Serialized_not(t) == TRUE

\* The mutual exclusion of whole calls
Serialized(t) == atomic => \A u \in Threads \ {t} : thread[u].pc = "idle"

\* const timestamp = Date.now() (browser.ts:62)
ReadClock(t, now) ==
    /\ thread[t].pc = "idle"
    /\ Serialized(t)
    /\ calls < MaxThreadCalls
    /\ calls' = calls + 1
    /\ thread' = [thread EXCEPT ![t] = [NoCall EXCEPT !.pc = "compare",
                                                      !.timestamp = now]]
    /\ UNCHANGED <<bytes, position, lastTimestamp, lastRandomPart, hist>>
    /\ ThreadFrame

\* if (timestamp === lastTimestamp) (browser.ts:71)
Compare(t) ==
    /\ thread[t].pc = "compare"
    /\ thread' = [thread EXCEPT ![t].pc = IF thread[t].timestamp = lastTimestamp
                                          THEN "increment" ELSE "fresh"]
    /\ UNCHANGED <<bytes, position, lastTimestamp, lastRandomPart, hist, calls>>
    /\ ThreadFrame

\* randomPart = incrementBase62(lastRandomPart); if (!randomPart) throw
\* (browser.ts:73-77)
Increment(t) ==
    /\ thread[t].pc = "increment"
    /\ LET randomPart == incrementBase62(lastRandomPart)
       IN thread' = [thread EXCEPT ![t] =
                        IF Falsy(randomPart) THEN NoCall
                        ELSE [@ EXCEPT !.pc = "writeBack",
                                       !.randomPart = randomPart.str,
                                       !.mode = "increment"]]
    /\ UNCHANGED <<bytes, position, lastTimestamp, lastRandomPart, hist, calls>>
    /\ ThreadFrame

\* One pass of the while loop of createId(8) (browser.ts:80, 32-47) on the shared
\* bytes and position: the caller goes on to line 81 when it has 8 symbols
Draw(t, bs, pos) ==
    LET r == Scan(bs, pos, thread[t].id, ParamLength(Number(RandomLength, 1), DefaultLength), {})
    IN /\ bytes' = bs
       /\ position' = r.position
       /\ thread' = [thread EXCEPT ![t] =
                        IF Len(r.id) < RandomLength
                        THEN [@ EXCEPT !.id = r.id]
                        ELSE [@ EXCEPT !.pc = "writeTimestamp", !.id = r.id,
                                       !.randomPart = r.id, !.mode = "fresh"]]
       /\ UNCHANGED <<lastTimestamp, lastRandomPart, hist, calls>>
       /\ ThreadFrame

DrawRefill(t, batch) ==
    /\ thread[t].pc = "fresh"
    /\ position = Len(bytes)
    /\ Draw(t, batch, 0)

DrawContinue(t) ==
    /\ thread[t].pc = "fresh"
    /\ position # Len(bytes)
    /\ Draw(t, bytes, position)

\* crypto.getRandomValues throws in the caller's createId(8)
DrawFails(t) ==
    /\ thread[t].pc = "fresh"
    /\ position = Len(bytes)
    /\ thread' = [thread EXCEPT ![t] = NoCall]
    /\ UNCHANGED <<bytes, position, lastTimestamp, lastRandomPart, hist, calls>>
    /\ ThreadFrame

\* lastTimestamp = timestamp (browser.ts:81)
WriteTimestamp(t) ==
    /\ thread[t].pc = "writeTimestamp"
    /\ lastTimestamp' = thread[t].timestamp
    /\ thread' = [thread EXCEPT ![t].pc = "writeBack"]
    /\ UNCHANGED <<bytes, position, lastRandomPart, hist, calls>>
    /\ ThreadFrame

\* lastRandomPart = randomPart; return timestampStr + randomPart (browser.ts:84-85)
WriteBack(t) ==
    /\ thread[t].pc = "writeBack"
    /\ lastRandomPart' = thread[t].randomPart
    /\ hist' = Append(hist, [ts |-> thread[t].timestamp, mode |-> thread[t].mode,
                             id |-> TimestampStr(thread[t].timestamp)
                                       \o thread[t].randomPart])
    /\ thread' = [thread EXCEPT ![t] = NoCall]
    /\ UNCHANGED <<bytes, position, lastTimestamp, calls>>
    /\ ThreadFrame

NextThreads ==
    \/ \E t \in Threads, now \in ThreadReadings : ReadClock(t, now)
    \/ \E t \in Threads : Compare(t)
    \/ \E t \in Threads : Increment(t)
    \/ \E t \in Threads, batch \in Batches : DrawRefill(t, batch)
    \/ \E t \in Threads : DrawContinue(t)
    \/ \E t \in Threads : DrawFails(t)
    \/ \E t \in Threads : WriteTimestamp(t)
    \/ \E t \in Threads : WriteBack(t)

SpecThreads == InitThreads /\ [][NextThreads]_vars

-----------------------------------------------------------------------------
(* Vocabulary of the properties, independent of chars and of the encoder *)

\* [0-9A-Za-z]
InAlphabet(c) == c \in (48..57) \cup (65..90) \cup (97..122)

AllInAlphabet(str) == \A i \in DOMAIN str : InAlphabet(str[i])

\* The value of a symbol: '0'..'9' are 0..9, 'A'..'Z' 10..35, 'a'..'z' 36..61
DigitValue(c) == IF c <= 57 THEN c - 48 ELSE IF c <= 90 THEN c - 55 ELSE c - 61

\* n * 62 + d
NumTimesBasePlus(n, d) ==
    LET x == n.lo * 62 + d
    IN [hi |-> n.hi * 62 + x \div Limb, lo |-> x % Limb]

\* n + 1
NumSucc(n) == IF n.lo + 1 < Limb THEN [hi |-> n.hi, lo |-> n.lo + 1]
              ELSE [hi |-> n.hi + 1, lo |-> 0]

\* The number a big-endian base-62 numeral denotes
RECURSIVE Base62ValueFrom(_, _)
Base62ValueFrom(str, acc) ==
    IF str = <<>> THEN acc
    ELSE Base62ValueFrom(Tail(str), NumTimesBasePlus(acc, DigitValue(Head(str))))

Base62Value(str) == Base62ValueFrom(str, Num(0, 0))

\* 62^8, the first clock reading whose numeral has 9 symbols
Pow8 == Num(Limb, 0)

\* A clock reading whose numeral fits the 8 symbols: 0 <= t < 62^8
InRange(t) == ~NumLess(t, Num(0, 0)) /\ NumLess(t, Pow8)

\* The trailing 8 symbols of an id and what precedes them
RandomSegment(str) == Substring(str, Len(str) - 8, Len(str))

TimestampSegment(str) == Substring(str, 0, Len(str) - 8)

AllMax == [i \in 1..8 |-> 122]

Finished(op) == pc = "idle" /\ ret.op = op

IsInteger(a) == a.num % a.den = 0

\* a valid length: a positive integer, or none given
ValidArg(a) == a.defined => (IsInteger(a) /\ a.num > 0)

-----------------------------------------------------------------------------
(* C1 *)

\* C1, as stated: the ids returned by successive createSortableId() calls are
\* non-decreasing in string order, and strictly increasing between two successive
\* calls that read the same millisecond.
C1_Monotonic ==
    \A k \in 1..(Len(hist) - 1) :
        /\ StrLeq(hist[k].id, hist[k + 1].id)
        /\ hist[k].ts = hist[k + 1].ts => StrLess(hist[k].id, hist[k + 1].id)

\* C1, amended: of two successive createSortableId() calls that return, if both
\* readings are in 0 <= t < 62^8 and the second is not earlier than the first, the
\* second id is not smaller than the first; and if the two readings are equal
\* (whatever they are) the second id is strictly greater.
C1_MonotonicForwardClock ==
    \A k \in 1..(Len(hist) - 1) :
        /\ (/\ ~NumLess(hist[k + 1].ts, hist[k].ts)
            /\ InRange(hist[k].ts)
            /\ InRange(hist[k + 1].ts))
              => StrLeq(hist[k].id, hist[k + 1].id)
        /\ hist[k].ts = hist[k + 1].ts => StrLess(hist[k].id, hist[k + 1].id)

\* Three ids: two in one millisecond, the third in a later one below 62^8
C1_Witness ==
    /\ Len(hist) = 3
    /\ hist[1].ts = hist[2].ts
    /\ NumLess(hist[2].ts, hist[3].ts)
    /\ InRange(hist[2].ts)
    /\ InRange(hist[3].ts)

-----------------------------------------------------------------------------
(* C2 *)

\* C2, as stated: two ids returned by different createSortableId() calls that read
\* the same millisecond are different, whatever was called in between.
C2_NoCollision ==
    \A i, j \in DOMAIN hist :
        (i < j /\ hist[i].ts = hist[j].ts) => hist[i].id # hist[j].id

\* C2, amended: two ids returned by different createSortableId() calls that read
\* the same millisecond are different when every id returned between them was
\* made in that millisecond too.
C2_NoCollisionInRun ==
    \A i, j \in DOMAIN hist :
        (i < j /\ \A k \in i..j : hist[k].ts = hist[i].ts) => hist[i].id # hist[j].id

\* Three ids of one millisecond, the last two by increment, with a createId call
\* having moved the cursor at some point
C2_Witness ==
    /\ Len(hist) = 3
    /\ hist[1].ts = hist[2].ts
    /\ hist[2].ts = hist[3].ts
    /\ hist[3].mode = "increment"

-----------------------------------------------------------------------------
(* C3 *)

\* C3: no byte of a batch that produced a symbol of an earlier id produces a symbol
\* of a later id (every call starts at the next unconsumed byte).
C3_EachByteUsedOnce == ~reused

-----------------------------------------------------------------------------
(* C4 *)

\* An id of 16 alphabet symbols whose first 8 denote the clock reading ts
WellFormed(ts, str) ==
    /\ Len(str) = 16
    /\ AllInAlphabet(str)
    /\ Base62Value(Substring(str, 0, 8)) = ts
    /\ Len(Substring(str, 8, 16)) = 8

\* C4, as stated: every id createSortableId() returns has exactly 16 alphabet
\* symbols, the first 8 being the padded base-62 numeral of the clock reading.
C4_SixteenSymbols == \A k \in DOMAIN hist : WellFormed(hist[k].ts, hist[k].id)

\* C4, amended: the same, for every clock reading in 0 <= t < 62^8.
C4_SixteenSymbolsInRange ==
    \A k \in DOMAIN hist :
        InRange(hist[k].ts) => WellFormed(hist[k].ts, hist[k].id)

\* An id made fresh and one made by increment, at a present-day reading
C4_Witness ==
    /\ Len(hist) >= 2
    /\ hist[1].mode = "fresh"
    /\ hist[2].mode = "increment"
    /\ InRange(hist[2].ts)
    /\ hist[2].ts.hi > 0

-----------------------------------------------------------------------------
(* C5 *)

\* C5: createId(length) with a valid length returns exactly length alphabet
\* symbols, and with no argument 16.
C5_CreateIdLength ==
    (Finished("createId") /\ ret.status = "returned" /\ ValidArg(arg))
        => /\ Len(ret.value) = (IF arg.defined THEN arg.num \div arg.den ELSE 16)
           /\ AllInAlphabet(ret.value)

-----------------------------------------------------------------------------
(* C6 *)

\* C6: of two ids returned in succession at the same clock reading, the second has
\* the same leading symbols and its trailing 8 symbols denote the first's plus one.
C6_IncrementsPrevious ==
    \A k \in 1..(Len(hist) - 1) :
        hist[k].ts = hist[k + 1].ts
            => /\ TimestampSegment(hist[k + 1].id) = TimestampSegment(hist[k].id)
               /\ Len(RandomSegment(hist[k + 1].id)) = 8
               /\ AllInAlphabet(RandomSegment(hist[k + 1].id))
               /\ Base62Value(RandomSegment(hist[k + 1].id))
                      = NumSucc(Base62Value(RandomSegment(hist[k].id)))

\* Two ids in one millisecond where the increment carries out of the last symbol
C6_Witness ==
    /\ Len(hist) >= 2
    /\ hist[1].ts = hist[2].ts
    /\ hist[1].id[Len(hist[1].id)] = 122
    /\ hist[2].id[Len(hist[2].id)] = 48

-----------------------------------------------------------------------------
(* C7 *)

\* C7: a createSortableId() call that finds the sequencing state initial does not
\* fail with overflow; when it returns, its segment is a fresh one and the clock
\* reading is recorded as last timestamp.
C7_FirstCallIsFresh ==
    (/\ Finished("createSortableId")
     /\ pre.lastTimestamp = Num(0, 0)
     /\ pre.lastRandomPart = <<>>)
        => /\ ret.status # "overflow"
           /\ ret.status = "returned"
                 => /\ hist[Len(hist)].mode = "fresh"
                    /\ lastTimestamp = timestamp

-----------------------------------------------------------------------------
(* C8 *)

\* C8: a createSortableId() call in the millisecond of the previous one, with the
\* last random segment 'zzzzzzzz', fails with overflow and returns no id.
C8_OverflowFails ==
    (/\ Finished("createSortableId")
     /\ timestamp = pre.lastTimestamp
     /\ pre.lastRandomPart = AllMax)
        => /\ ret.status = "overflow"
           /\ ret.value = <<>>
           /\ Len(hist) = pre.returned

C8_Witness ==
    /\ Finished("createSortableId")
    /\ timestamp = pre.lastTimestamp
    /\ pre.lastRandomPart = AllMax
    /\ ret.status = "overflow"

-----------------------------------------------------------------------------
(* C9 *)

InvalidArg(a) == a.defined /\ (a.num <= 0 \/ ~IsInteger(a))

BufferUntouched == bytes = pre.bytes /\ position = pre.position /\ ~invoked

\* C9, as stated: createId with a length <= 0 or a non-integer length returns no
\* id, leaves buffer and cursor as they were and does not invoke the random source.
C9_InvalidLengthRejected ==
    /\ (pc = "createId" /\ InvalidArg(arg)) => BufferUntouched
    /\ (Finished("createId") /\ InvalidArg(arg))
          => (ret.status # "returned" /\ BufferUntouched)

\* C9, amended: createId with a length <= 0 returns the empty string, leaves buffer
\* and cursor as they were and does not invoke the random source; a positive
\* non-integer length is not rejected: the id returned has the least whole number
\* of symbols that is not below it.
C9_NonPositiveLengthEmpty ==
    /\ (Finished("createId") /\ arg.defined /\ arg.num <= 0)
          => (ret.status = "returned" /\ ret.value = <<>> /\ BufferUntouched)
    /\ (Finished("createId") /\ arg.defined /\ arg.num > 0 /\ ret.status = "returned")
          => /\ Len(ret.value) * arg.den >= arg.num
             /\ (Len(ret.value) - 1) * arg.den < arg.num

\* createId(0) returned after an earlier call left a cursor inside a batch
C9_Witness ==
    /\ Finished("createId")
    /\ arg = Number(0, 1)
    /\ ret.value = <<>>
    /\ Len(pre.bytes) = BatchSize
    /\ pre.position > 0

-----------------------------------------------------------------------------
(* C10 *)

\* C10, as stated: of two ids made at clock readings a < b, the timestamp segment
\* and the whole id of the one made at a sort strictly first.
C10_TimestampOrder ==
    \A i, j \in DOMAIN hist :
        NumLess(hist[i].ts, hist[j].ts)
            => /\ StrLess(TimestampSegment(hist[i].id), TimestampSegment(hist[j].id))
               /\ StrLess(hist[i].id, hist[j].id)

\* C10, amended: the same, for clock readings 0 <= a < b < 62^8.
C10_TimestampOrderInRange ==
    \A i, j \in DOMAIN hist :
        (NumLess(hist[i].ts, hist[j].ts) /\ InRange(hist[i].ts) /\ InRange(hist[j].ts))
            => /\ StrLess(TimestampSegment(hist[i].id), TimestampSegment(hist[j].id))
               /\ StrLess(hist[i].id, hist[j].id)

\* The id of the later reading was made first; the readings are 61 and 62
C10_Witness ==
    /\ Len(hist) >= 2
    /\ hist[1].ts = Num(0, 62)
    /\ hist[2].ts = Num(0, 61)

-----------------------------------------------------------------------------
(* C11 *)

\* The symbol of value v: 0..9 are '0'..'9', 10..35 'A'..'Z', 36..61 'a'..'z'
SymbolOfValue(v) == IF v < 10 THEN 48 + v ELSE IF v < 36 THEN 55 + v ELSE 61 + v

\* The symbols of the bytes <= 247 of bs, in order, each the symbol of value b mod 62
RECURSIVE AcceptedSymbols(_)
AcceptedSymbols(bs) ==
    IF bs = <<>> THEN <<>>
    ELSE IF Head(bs) <= 247
         THEN <<SymbolOfValue(Head(bs) % 62)>> \o AcceptedSymbols(Tail(bs))
         ELSE AcceptedSymbols(Tail(bs))

\* C11: the string a createId call has built, and the one it returns, is the
\* symbols of the bytes <= 247 among the bytes it read, in the order read, each
\* byte b giving the symbol at index b mod 62; bytes 248..255 give nothing.
C11_RejectionSampling ==
    read.complete
        => /\ Running => id = AcceptedSymbols(read.bytes)
           /\ (Finished("createId") /\ ret.status = "returned")
                 => ret.value = AcceptedSymbols(read.bytes)

\* A createId call that returned after reading accepted and rejected bytes
C11_Witness ==
    /\ Finished("createId")
    /\ ret.status = "returned"
    /\ read.complete
    /\ Len(ret.value) >= 2
    /\ \E i \in DOMAIN read.bytes : read.bytes[i] >= 248
    /\ \E i \in DOMAIN read.bytes : read.bytes[i] = 247

-----------------------------------------------------------------------------
(* C14 *)

\* C14: after a createSortableId call that returned an id, in either mode,
\* lastRandomPart is the trailing 8 symbols of that id and lastTimestamp is the
\* clock reading the call used.
C14_StateRecordsReturnedId ==
    (Finished("createSortableId") /\ ret.status = "returned")
        => /\ lastRandomPart = RandomSegment(ret.value)
           /\ lastTimestamp = timestamp
           /\ hist[Len(hist)].id = ret.value
           /\ hist[Len(hist)].ts = timestamp

\* An id returned in increment mode right after one returned in fresh-segment mode
C14_Witness ==
    /\ Finished("createSortableId")
    /\ ret.status = "returned"
    /\ Len(hist) >= 2
    /\ hist[Len(hist)].mode = "increment"
    /\ hist[Len(hist) - 1].mode = "fresh"
    /\ ~NumIsZero(timestamp)

-----------------------------------------------------------------------------
(* C16 *)

\* C16: a createId call, while it runs and when it has ended, leaves lastTimestamp
\* and lastRandomPart as it found them; a createSortableId call in increment mode
\* (its reading equals the lastTimestamp it found) leaves bytes and position as it
\* found them and does not invoke the random source.
C16_Frame ==
    /\ (pc = "createId" \/ Finished("createId"))
          => /\ lastTimestamp = pre.lastTimestamp
             /\ lastRandomPart = pre.lastRandomPart
    /\ (Finished("createSortableId") /\ timestamp = pre.lastTimestamp)
          => BufferUntouched

\* A createId call that returned a string while a sequencing state existed, the
\* cursor inside a batch
C16_Witness ==
    /\ Finished("createId")
    /\ ret.status = "returned"
    /\ Len(ret.value) >= 1
    /\ pre.lastRandomPart # <<>>
    /\ pre.lastRandomPart # ret.value
    /\ 0 < position
    /\ position < Len(bytes)

-----------------------------------------------------------------------------
(* C17 *)

\* C17: in every reachable state 0 <= position <= bytes.length; the random source
\* is invoked (successfully or not) only by a step that found position equal to
\* bytes.length; a refill leaves a batch of 40 bytes whose for loop started at
\* cursor 0.
C17_CursorAndRefill ==
    /\ 0 <= position
    /\ position <= Len(bytes)
    /\ last.step \in {"Refill", "RefillFails"} => last.cursor = last.size
    /\ invoked => last.step \in {"Refill", "RefillFails", "Continue"}
    /\ last.step = "Refill" => (Len(bytes) = 40 /\ last.from = 0 /\ invoked)
    /\ last.step \in {"Continue", "createId", "createSortableId"}
          => Len(bytes) = last.size

\* A refill made when a whole batch of 40 bytes had been passed over
C17_Witness ==
    /\ last.step = "Refill"
    /\ last.cursor = 40
    /\ last.size = 40
    /\ position < Len(bytes)

-----------------------------------------------------------------------------
(* C18 *)

\* C18: a call in which the random source failed ends at that step with the
\* source's error (not the overflow error) and no value; when the call is
\* createSortableId no id is returned and lastTimestamp and lastRandomPart are as
\* the call found them.
C18_SourceFailurePropagates ==
    (pc = "idle" /\ ret.status = "sourceError")
        => /\ ret.value = <<>>
           /\ last.step = "RefillFails"
           /\ invoked
           /\ ret.op = "createSortableId"
                 => /\ sortable.status = "sourceError"
                    /\ sortable.status # "overflow"
                    /\ Len(hist) = pre.returned
                    /\ lastTimestamp = pre.lastTimestamp
                    /\ lastRandomPart = pre.lastRandomPart

\* A createSortableId call that had drawn part of its segment from a batch when
\* the next refill failed
C18_Witness ==
    /\ Finished("createSortableId")
    /\ ret.status = "sourceError"
    /\ timestamp # pre.lastTimestamp
    /\ Len(bytes) = 40
    /\ position = 40
    /\ id # <<>>
    /\ Len(id) < 8

-----------------------------------------------------------------------------
(* C15 *)

\* A createSortableId call has ended and the createSortableId call before it
\* failed with overflow
AfterOverflow == Finished("createSortableId") /\ pre.sortable.status = "overflow"

\* A call that failed with overflow left lastTimestamp and lastRandomPart as found
OverflowKeepsState ==
    (Finished("createSortableId") /\ ret.status = "overflow")
        => /\ lastTimestamp = pre.lastTimestamp
           /\ lastRandomPart = pre.lastRandomPart
           /\ Len(hist) = pre.returned

\* The next call reading the same millisecond fails with overflow again
OverflowRepeats ==
    (AfterOverflow /\ timestamp = pre.sortable.ts) => ret.status = "overflow"

ReturnedFresh ==
    /\ ret.status = "returned"
    /\ Len(hist) = pre.returned + 1
    /\ hist[Len(hist)].mode = "fresh"
    /\ hist[Len(hist)].ts = timestamp

\* C15, as stated: an overflow failure leaves lastTimestamp and lastRandomPart
\* unchanged, the next calls in that millisecond fail with overflow too, and the
\* first call reading another millisecond returns an id with a fresh segment.
C15_OverflowUntilNextMillisecond ==
    /\ OverflowKeepsState
    /\ OverflowRepeats
    /\ (AfterOverflow /\ timestamp # pre.sortable.ts) => ReturnedFresh

\* C15, amended: as above, but the first call reading another millisecond returns
\* an id with a fresh segment unless the random source fails during it; it never
\* fails with overflow.
C15_OverflowUntilNextMillisecondOrSourceFailure ==
    /\ OverflowKeepsState
    /\ OverflowRepeats
    /\ (AfterOverflow /\ timestamp # pre.sortable.ts)
          => /\ ret.status \in {"returned", "sourceError"}
             /\ ret.status = "returned" => ReturnedFresh
             /\ ret.status = "sourceError" => invoked

\* After an id ending in 'zzzzzzzz' and an overflow in its millisecond, a call in
\* another millisecond returned
C15_Witness ==
    /\ AfterOverflow
    /\ pre.lastRandomPart = AllMax
    /\ timestamp # pre.sortable.ts
    /\ ret.status = "returned"

-----------------------------------------------------------------------------
(* C12 *)

AllSymbols(str, c) == \A i \in DOMAIN str : str[i] = c

\* C12: incrementBase62(str) is null exactly when every symbol of str is 'z';
\* otherwise the result has the width of str, consists of alphabet symbols and
\* denotes the value of str plus one, and for an all-'0' str it is str with the
\* last symbol replaced by '1'.
C12_IncrementBase62 ==
    Finished("incrementBase62")
        => /\ ret.status = "null" <=> AllSymbols(lastRandomPart, 122)
           /\ ret.status # "null"
                 => /\ ret.status = "returned"
                    /\ Len(ret.value) = Len(lastRandomPart)
                    /\ AllInAlphabet(ret.value)
                    /\ Base62Value(ret.value) = NumSucc(Base62Value(lastRandomPart))
           /\ (lastRandomPart # <<>> /\ AllSymbols(lastRandomPart, 48))
                 => ret.value = [lastRandomPart EXCEPT ![Len(lastRandomPart)] = 49]

\* An 8-symbol argument whose increment carried through seven 'z' symbols
C12_Witness ==
    /\ Finished("incrementBase62")
    /\ ret.status = "returned"
    /\ lastRandomPart = Wide(48, 122, 122)
    /\ ret.value = Wide(49, 48, 48)

-----------------------------------------------------------------------------
(* C13 *)

\* C13: encodeBase62 maps 0 to "0", 61 to "z", 62 to "10"; for every argument
\* n >= 0 the result is a non-empty string of alphabet symbols that denotes n,
\* most significant symbol first, and starts with '0' only when n = 0.
C13_EncodeBase62 ==
    Finished("encodeBase62")
        => /\ timestamp = Num(0, 0) => ret.value = <<48>>
           /\ timestamp = Num(0, 61) => ret.value = <<122>>
           /\ timestamp = Num(0, 62) => ret.value = <<49, 48>>
           /\ Len(ret.value) >= 1
           /\ AllInAlphabet(ret.value)
           /\ ret.value[1] = 48 => timestamp = Num(0, 0)
           /\ Base62Value(ret.value) = timestamp

\* A present-day reading encoded to seven symbols
C13_Witness ==
    /\ Finished("encodeBase62")
    /\ timestamp = Num(121396, 1914944)
    /\ Len(ret.value) = 7
    /\ ret.value[1] # 48

-----------------------------------------------------------------------------
(* C20 *)

\* C20: when the running call takes its steps and the source comes to supply
\* batches holding bytes <= 247, every createId call that entered its loop ends,
\* and every createSortableId call that draws a fresh segment ends with an id or
\* with the source's error; it does not stay in between.
C20_CallsEnd ==
    /\ (pc = "createId") ~> (pc = "idle" /\ ret.status \in {"returned", "sourceError"})
    /\ (pc = "createSortableId")
          ~> (Finished("createSortableId") /\ ret.status \in {"returned", "sourceError"})

\* A createId call that has passed over a whole batch of rejected bytes and has
\* no symbol yet
C20_Witness ==
    /\ pc = "createId"
    /\ Len(bytes) = 40
    /\ position = Len(bytes)
    /\ invoked
    /\ id = <<>>
    /\ \A i \in DOMAIN bytes : bytes[i] > 247

-----------------------------------------------------------------------------
(* C19 *)

\* C19, as stated (its second half): when the calls are serialized, no two ids
\* returned one after the other are equal or decreasing.
C19_SerializedIncreasing ==
    atomic => \A k \in 1..(Len(hist) - 1) : StrLess(hist[k].id, hist[k + 1].id)

\* C19, amended: when the calls are serialized, two ids returned one after the
\* other are strictly increasing if both readings are in 0 <= t < 62^8 and the
\* second is not earlier than the first.  (The first half, the duplicate reached
\* without serialization, is C19_Witness.)
C19_SerializedIncreasingForwardClock ==
    atomic => \A k \in 1..(Len(hist) - 1) :
                 (/\ ~NumLess(hist[k + 1].ts, hist[k].ts)
                  /\ InRange(hist[k].ts)
                  /\ InRange(hist[k + 1].ts))
                    => StrLess(hist[k].id, hist[k + 1].id)

\* Without serialization: after an id of millisecond 61, two calls that read 61
\* both incremented the same lastRandomPart and returned the same id
C19_Witness ==
    /\ ~atomic
    /\ Len(hist) = 3
    /\ \A k \in 1..3 : hist[k].ts = Num(0, 61)
    /\ hist[2].mode = "increment"
    /\ hist[3].mode = "increment"
    /\ hist[2].id = hist[3].id

====
